---- MODULE Spec2Model ----
(***************************************************************************)
(* controller.py: dispatch a sequence of PowerShell scripts to a list of   *)
(* WorkSpaces through SSM, poll each command until it ends or times out,   *)
(* and accumulate one result row per (workspace, script) pair.             *)
(*                                                                         *)
(* Python str values that the program slices or builds (stdout, stderr,    *)
(* response_code, command_id, str(e)) are modelled as run-length encoded   *)
(* character sequences: a Text is a sequence of <<char, count>> runs with  *)
(* count > 0 and no two adjacent runs of the same char, so that equal      *)
(* strings have equal encodings and a 4001 character output is two runs.   *)
(* Statuses, workspace ids, usernames and script names are never sliced    *)
(* and are TLA+ strings.                                                   *)
(***************************************************************************)
EXTENDS Integers, Sequences, FiniteSets, TLC

\* ------------------------------------------------------------------ bounds
MaxRows == 2
MaxJobs == 2
MaxPairs == 2

\* ------------------------------------------------------- program constants
POLL_INTERVAL == 5
TAIL_CHARS == 4000

\* ---------------------------------------------------------------- strings
EmptyText == <<>>

RECURSIVE TextLen(_)
TextLen(s) == IF s = <<>> THEN 0 ELSE s[1][2] + TextLen(Tail(s))

Rep(c, n) == IF n <= 0 THEN <<>> ELSE << <<c, n>> >>

\* s + t
Cat(s, t) ==
    IF s = <<>> THEN t
    ELSE IF t = <<>> THEN s
    ELSE IF s[Len(s)][1] = t[1][1]
         THEN SubSeq(s, 1, Len(s) - 1)
                \o << <<t[1][1], s[Len(s)][2] + t[1][2]>> >>
                \o Tail(t)
         ELSE s \o t

\* s[start:] for 0 <= start
RECURSIVE DropChars(_, _)
DropChars(s, start) ==
    IF start <= 0 \/ s = <<>> THEN s
    ELSE IF s[1][2] <= start THEN DropChars(Tail(s), start - s[1][2])
    ELSE << <<s[1][1], s[1][2] - start>> >> \o Tail(s)

\* s[:stop] for 0 <= stop
RECURSIVE TakeChars(_, _)
TakeChars(s, stop) ==
    IF stop <= 0 \/ s = <<>> THEN <<>>
    ELSE IF s[1][2] <= stop
         THEN Cat(<< s[1] >>, TakeChars(Tail(s), stop - s[1][2]))
    ELSE << <<s[1][1], stop>> >>

\* a faulty variant: s[:n], the head
SliceFromEndHead(s, n) == TakeChars(s, n)

\* Python's s[-n:] (n > 0): a negative start counts from the end and is
\* clamped to 0 when the string is shorter than n.
SliceFromEnd(s, n) ==
    LET start == IF TextLen(s) - n < 0 THEN 0 ELSE TextLen(s) - n
    IN  DropChars(s, start)

Digit(d) == CASE d = 0 -> "0" [] d = 1 -> "1" [] d = 2 -> "2" [] d = 3 -> "3"
              [] d = 4 -> "4" [] d = 5 -> "5" [] d = 6 -> "6" [] d = 7 -> "7"
              [] d = 8 -> "8" [] d = 9 -> "9"

\* str(n) for an int
RECURSIVE NatStr(_)
NatStr(n) == IF n < 10 THEN Rep(Digit(n), 1)
             ELSE Cat(NatStr(n \div 10), Rep(Digit(n % 10), 1))
IntStr(n) == IF n < 0 THEN Cat(Rep("-", 1), NatStr(0 - n)) ELSE NatStr(n)

\* ----------------------------------------------------------------- inputs
DEFAULT_SEQUENCE ==
    << "zscaler.ps1", "splunk_uf.ps1", "bit9_cbac.ps1", "winlogbeat.ps1",
       "elastic_agent.ps1", "crowdstrike.ps1", "nessus.ps1", "bigfix.ps1" >>

\* rows read_workspaces can return: workspace_id non-empty, the same id may
\* appear on several rows, username may be empty
RowChoices ==
    { [workspace_id |-> "ws-1", username |-> "alice"],
      [workspace_id |-> "ws-1", username |-> ""],
      [workspace_id |-> "ws-2", username |-> "bob"] }

\* registries of the service: the InstanceIds of each page that
\* describe_instance_information returns (at least one page, possibly empty)
Registries ==
    { << {} >>,
      << {"ws-1"}, {"ws-2", "i-0abc"} >>,
      << {"i-0abc"}, {"ws-1"} >>,
      << {"ws-2"}, {}, {"i-0abc"} >> }

\* --timeout values (seconds)
Timeouts == {0, 7}

SeqsUpTo(S, n) == UNION { [1..k -> S] : k \in 0..n }

\* load_scripts: (script_name, content) in the order of the sequence; the
\* content of a file is represented by its path
ScriptContent(name) == "scripts/" \o name
load_scripts(sequence) ==
    [k \in 1..Len(sequence) |-> <<sequence[k], ScriptContent(sequence[k])>>]

\* ------------------------------------------------------- service responses
\* An optional field of a response is <<>> when missing (None) and <<v>>
\* when present.
Missing == <<>>
Some(v) == <<v>>

TxtShort == Cat(Rep("o", 1), Rep("k", 2))
TxtExact == Cat(Rep("a", 1), Rep("b", TAIL_CHARS - 1))
TxtLong == Cat(Rep("a", 2), Rep("b", TAIL_CHARS - 1))
TxtLonger == Cat(Rep("x", 3), Rep("y", TAIL_CHARS + 5))

\* str(e) of the exceptions the service calls raise: a short ClientError
\* message and another exception whose message is longer than the tail
ErrClient == Cat(Rep("A", 1), Rep("n", 1))
ErrOther == Cat(Rep("E", 2), Rep("r", TAIL_CHARS))
ErrText(end) == IF end = "ClientError" THEN ErrClient ELSE ErrOther

Plugin(rc, out, err) ==
    [ResponseCode |-> rc, Output |-> out, StandardErrorContent |-> err]
Invocation(status, plugins) == [Status |-> status, CommandPlugins |-> plugins]

\* what list_command_invocations can answer: the CommandInvocations list of
\* a response (empty, or one record), or an exception
Invocations ==
    { <<>>,
      << Invocation(Some("InProgress"),
                    << Plugin(Missing, Some(TxtShort), Missing) >>) >>,
      << Invocation(Some("Pending"), <<>>) >>,
      << Invocation(Missing, <<>>) >>,
      << Invocation(Some("Success"),
                    << Plugin(Some(0), Some(TxtLong), Some(EmptyText)) >>) >>,
      << Invocation(Some("Failed"),
                    << Plugin(Some(1), Some(TxtShort), Some(TxtLonger)),
                       Plugin(Some(2), Some(TxtLong), Missing) >>) >>,
      << Invocation(Some("Cancelled"), <<>>) >>,
      << Invocation(Some("TimedOut"),
                    << Plugin(Some(-1), Some(TxtExact), Missing) >>) >> }

\* how a service call ends
CallEnds == {"ok", "ClientError", "Exception"}

\* ------------------------------------------------------- program functions
\* x or "" for an optional string
OrEmpty(opt) == IF opt = Missing THEN EmptyText ELSE opt[1]

\* str(p.get("ResponseCode") or ""): None and 0 are both falsy
ResponseCodeStr(opt) ==
    IF opt = Missing \/ opt[1] = 0 THEN EmptyText ELSE IntStr(opt[1])

\* item.get("Status", "Unknown")
StatusOf(item) == IF item.Status = Missing THEN "Unknown" ELSE item.Status[1]

TerminalStatuses == {"Success", "Failed", "Cancelled", "TimedOut"}

\* the id the service gives its n-th command
CommandId(n) == Cat(Rep("c", 1), IntStr(n))

\* resolve_ssm_managed_instances: found before the first page
FoundInit(workspace_ids) ==
    [ws \in { workspace_ids[k] : k \in 1..Len(workspace_ids) } |-> FALSE]

\* a faulty variant: found is overwritten by each page
FoundAfterPageLast(found, page) == [ws \in DOMAIN found |-> ws \in page]

\* a faulty variant: a page that lists anything marks every workspace
FoundAfterPageAny(found, page) ==
    [ws \in DOMAIN found |-> found[ws] \/ page # {}]

\* resolve_ssm_managed_instances: the inner loop over one page
FoundAfterPage(found, page) ==
    [ws \in DOMAIN found |-> found[ws] \/ ws \in page]

\* resolve_ssm_managed_instances when no request fails
RECURSIVE ResolveFrom(_, _, _)
ResolveFrom(f, pgs, k) ==
    IF k > Len(pgs) THEN f
    ELSE ResolveFrom(FoundAfterPage(f, pgs[k]), pgs, k + 1)
resolve_ssm_managed_instances(workspace_ids, pgs) ==
    ResolveFrom(FoundInit(workspace_ids), pgs, 1)

\* ssm_map.get(wsid, False)
MapGet(map, wsid) == IF wsid \in DOMAIN map THEN map[wsid] ELSE FALSE

\* a faulty variant: the error text is dropped
SendCommandFailedResultNoText(err) ==
    [status |-> "SendCommandFailed", response_code |-> EmptyText,
     stdout |-> EmptyText, stderr |-> EmptyText, command_id |-> EmptyText]

\* send_command_and_wait: the dict returned when send_command raises
\* ClientError
SendCommandFailedResult(err) ==
    [status |-> "SendCommandFailed", response_code |-> EmptyText,
     stdout |-> EmptyText, stderr |-> err, command_id |-> EmptyText]

\* send_command_and_wait: result before the poll loop
PendingResult(command_id) ==
    [status |-> "Pending", response_code |-> EmptyText,
     stdout |-> EmptyText, stderr |-> EmptyText, command_id |-> command_id]

\* a faulty variant: the status is left as it was
ListFailedResultKeepStatus(result, err) == [result EXCEPT !.stderr = err]

\* send_command_and_wait: list_command_invocations raised ClientError
ListFailedResult(result, err) ==
    [result EXCEPT !.status = "ListInvocationsFailed", !.stderr = err]

\* a faulty variant: an answer without record clears what was captured
PollUpdateEmptyResets(result, invs) ==
    IF invs = <<>> THEN PendingResult(result.command_id)
    ELSE LET item == invs[1]
             plugins == item.CommandPlugins
             withStatus == [result EXCEPT !.status = StatusOf(item)]
         IN  IF plugins = <<>> THEN withStatus
             ELSE LET p == plugins[1]
                  IN  [withStatus EXCEPT
                         !.response_code = ResponseCodeStr(p.ResponseCode),
                         !.stdout = OrEmpty(p.Output),
                         !.stderr = OrEmpty(p.StandardErrorContent)]

\* send_command_and_wait: one loop body after a successful query
PollUpdate(result, invs) ==
    IF invs = <<>> THEN result
    ELSE LET item == invs[1]
             plugins == item.CommandPlugins
             withStatus == [result EXCEPT !.status = StatusOf(item)]
         IN  IF plugins = <<>> THEN withStatus
             ELSE LET p == plugins[1]
                  IN  [withStatus EXCEPT
                         !.response_code = ResponseCodeStr(p.ResponseCode),
                         !.stdout = OrEmpty(p.Output),
                         !.stderr = OrEmpty(p.StandardErrorContent)]

\* a faulty variant: any record ends the loop
BreaksLoopAnyRecord(result, invs) == invs # <<>>

\* send_command_and_wait: the break test of the loop
BreaksLoop(result, invs) ==
    invs # <<>> /\ StatusOf(invs[1]) \in TerminalStatuses

\* a faulty variant: the status is left as the loop left it
FinalResultKeepStatus(result) == result

\* send_command_and_wait: after the loop
FinalResult(result) ==
    IF result.status \notin TerminalStatuses
    THEN [result EXCEPT !.status = "TimedOut"]
    ELSE result

\* main: the dict built when send_command_and_wait raises
SendFailedResult(err) ==
    [status |-> "SendFailed", response_code |-> EmptyText,
     stdout |-> EmptyText, stderr |-> err, command_id |-> EmptyText]

\* main: the row appended for a dispatched pair
ResultRow(row, script_name, result) ==
    [workspace_id |-> row.workspace_id,
     username |-> row.username,
     agent_script |-> script_name,
     status |-> result.status,
     response_code |-> result.response_code,
     stdout_snippet |-> SliceFromEnd(result.stdout, TAIL_CHARS),
     stderr_snippet |-> SliceFromEnd(result.stderr, TAIL_CHARS),
     command_id |-> result.command_id]

\* a faulty variant: one row for the workspace instead of one per script
SkipRowsOnce(row, scripts) ==
    IF scripts = <<>> THEN <<>>
    ELSE << [workspace_id |-> row.workspace_id,
             username |-> row.username,
             agent_script |-> scripts[1][1],
             status |-> "SSMNotFound",
             response_code |-> EmptyText,
             stdout_snippet |-> EmptyText,
             stderr_snippet |-> EmptyText,
             command_id |-> EmptyText] >>

\* main: the rows appended for a workspace that is not in ssm_map
SkipRows(row, scripts) ==
    [k \in 1..Len(scripts) |->
        [workspace_id |-> row.workspace_id,
         username |-> row.username,
         agent_script |-> scripts[k][1],
         status |-> "SSMNotFound",
         response_code |-> EmptyText,
         stdout_snippet |-> EmptyText,
         stderr_snippet |-> EmptyText,
         command_id |-> EmptyText]]

\* ------------------------------------------------------------------ state
VARIABLES
    workspaces,   \* main: rows of the CSV, in order
    scripts,      \* main: (script_name, content) in order
    timeout,      \* main: args.timeout
    pages,        \* the service's registry of managed instances, page by page
    pc,           \* where main is
    page,         \* resolve: index of the next page the paginator yields
    found,        \* resolve: found
    ssm_map,      \* main: ssm_map (<<>> before resolve returns)
    idx,          \* main: index of the current row
    j,            \* main: index of the current script
    now,          \* time.time(), in seconds since the command being polled
                  \* was submitted (0 outside the poll loop): the code
                  \* uses the clock only against deadline
    deadline,     \* send_command_and_wait: deadline
    command_id,   \* send_command_and_wait: command_id
    result,       \* send_command_and_wait: result
    results,      \* main: results
    report,       \* rows handed to write_results_csv (<<>> before)
    issued,       \* service: number of commands it accepted
    running,      \* service: commands it has not reported terminal
    contacted,    \* history: instance ids named in send/list requests
    cyc,          \* history: the last dispatch-and-poll cycle of the row
                  \* being processed (NoCycle between rows)
    sends,        \* history: number of send_command requests made
    registry      \* service: ids of the instances it manages right now

vars == << workspaces, scripts, timeout, pages, pc, page, found, ssm_map, idx,
           j, now, deadline, command_id, result, results, report, issued,
           running, contacted, cyc, sends, registry >>

inputs == << workspaces, scripts, timeout, pages >>

NoResult == PendingResult(EmptyText)

NoCycle ==
    [pair |-> 0, wsid |-> "", sent |-> "none", handle |-> EmptyText,
     err |-> EmptyText, deadline |-> 0, queries |-> 0, failedAt |-> 0,
     termAt |-> 0, termTime |-> -1, lastStatus |-> "", exit |-> "none",
     raw |-> NoResult, lastAt |-> -1, endAt |-> -1, empties |-> 0,
     last |-> <<>>]

Init ==
    /\ workspaces \in SeqsUpTo(RowChoices, MaxRows) \ { <<>> }
    /\ \E n \in 0..MaxJobs :
          scripts = load_scripts(SubSeq(DEFAULT_SEQUENCE, 1, n))
    /\ Len(workspaces) * Len(scripts) <= MaxPairs
    /\ timeout \in Timeouts
    /\ pages \in Registries
    /\ pc = "resolve"
    /\ page = 1
    /\ found = FoundInit([k \in 1..Len(workspaces) |-> workspaces[k].workspace_id])
    /\ ssm_map = <<>>
    /\ idx = 1
    /\ j = 1
    /\ now = 0
    /\ deadline = 0
    /\ command_id = EmptyText
    /\ result = NoResult
    /\ results = <<>>
    /\ report = <<>>
    /\ issued = 0
    /\ running = {}
    /\ contacted = {}
    /\ cyc = NoCycle
    /\ sends = 0
    /\ registry = UNION { pages[k] : k \in 1..Len(pages) }

\* ---------------------------------------------------------------- resolve
\* resolve_ssm_managed_instances: the paginator yields the next page; after
\* the last one the function returns found
PageRead ==
    /\ found' = FoundAfterPage(found, pages[page])
    /\ page' = page + 1
    /\ IF page = Len(pages)
       THEN ssm_map' = found' /\ pc' = "loop"
       ELSE UNCHANGED << ssm_map, pc >>

\* a faulty variant: the except clause returns what was found so far
PageFailsReturnsPartial ==
    /\ ssm_map' = found
    /\ pc' = "loop"
    /\ UNCHANGED << found, page >>

\* resolve_ssm_managed_instances: the request for a page raises (ClientError
\* is re-raised as RuntimeError, anything else propagates); main exits with 4
PageFails ==
    /\ pc' = "exit4"
    /\ UNCHANGED << found, page, ssm_map >>

ResolvePage ==
    /\ pc = "resolve"
    /\ page <= Len(pages)
    /\ \E end \in CallEnds : IF end = "ok" THEN PageRead ELSE PageFails
    /\ UNCHANGED << inputs, idx, j, now, deadline, command_id, result,
                    results, report, issued, running, contacted, cyc, sends,
                    registry >>

\* ------------------------------------------------------- main: row loop
\* a faulty variant: the row is decided on what the registry holds now
NextRowLive ==
    /\ pc = "loop"
    /\ IF idx > Len(workspaces)
       THEN /\ pc' = "write"
            /\ UNCHANGED << idx, j, results >>
       ELSE IF workspaces[idx].workspace_id \notin registry
       THEN /\ results' = results \o SkipRows(workspaces[idx], scripts)
            /\ idx' = idx + 1
            /\ UNCHANGED << pc, j >>
       ELSE /\ pc' = "send"
            /\ j' = 1
            /\ UNCHANGED << idx, results >>
    /\ UNCHANGED << inputs, page, found, ssm_map, now, deadline, command_id,
                    result, report, issued, running, contacted, cyc, sends,
                    registry >>

\* main: top of "for idx, row in enumerate(workspaces)"
NextRow ==
    /\ pc = "loop"
    /\ IF idx > Len(workspaces)
       THEN /\ pc' = "write"
            /\ UNCHANGED << idx, j, results >>
       ELSE IF ~ MapGet(ssm_map, workspaces[idx].workspace_id)
       THEN /\ results' = results \o SkipRows(workspaces[idx], scripts)
            /\ idx' = idx + 1
            /\ UNCHANGED << pc, j >>
       ELSE /\ pc' = "send"
            /\ j' = 1
            /\ UNCHANGED << idx, results >>
    /\ UNCHANGED << inputs, page, found, ssm_map, now, deadline, command_id,
                    result, report, issued, running, contacted, cyc, sends,
                    registry >>

\* a faulty variant: the row replaces the list instead of extending it
RecordReplaces(r, c) ==
    /\ results' = << ResultRow(workspaces[idx], scripts[j][1], r) >>
    /\ j' = j + 1
    /\ pc' = "send"
    /\ result' = NoResult
    /\ command_id' = EmptyText
    /\ deadline' = 0
    /\ now' = 0
    /\ cyc' = [c EXCEPT !.raw = r]

\* main: results.append(...) for the current pair, then the next script;
\* c is the history of the cycle that ends
Record(r, c) ==
    /\ results' = Append(results, ResultRow(workspaces[idx], scripts[j][1], r))
    /\ j' = j + 1
    /\ pc' = "send"
    /\ result' = NoResult
    /\ command_id' = EmptyText
    /\ deadline' = 0
    /\ now' = 0
    /\ cyc' = [c EXCEPT !.raw = r]

\* ------------------------------------------- main: script loop, dispatch
\* a faulty variant: the command is submitted and the next script follows
\* without waiting for it
SendReturnsNoWait(c) ==
    /\ issued' = issued + 1
    /\ running' = running \cup {issued + 1}
    /\ j' = j + 1
    /\ cyc' = [c EXCEPT !.handle = CommandId(issued + 1)]
    /\ UNCHANGED << pc, command_id, deadline, result, results, now >>

\* send_command_and_wait: send_command returned; up to the poll loop
SendReturns(c) ==
    /\ issued' = issued + 1
    /\ running' = running \cup {issued + 1}
    /\ command_id' = CommandId(issued + 1)
    /\ deadline' = now + timeout
    /\ result' = PendingResult(command_id')
    /\ pc' = "poll"
    /\ cyc' = [c EXCEPT !.handle = command_id', !.deadline = deadline']
    /\ UNCHANGED << j, results, now >>

\* a faulty variant: a rejected request is made again
SendRaisesClientErrorRetry(c) ==
    /\ cyc' = c
    /\ UNCHANGED << pc, j, results, result, command_id, deadline, now,
                    issued, running >>

\* send_command_and_wait: send_command raised ClientError
SendRaisesClientError(c) ==
    /\ Record(SendCommandFailedResult(ErrClient),
              [c EXCEPT !.err = ErrClient, !.exit = "send"])
    /\ UNCHANGED << issued, running >>

\* a faulty variant: nothing catches the exception and main ends there
SendRaisesUncaught(c) ==
    /\ pc' = "crash"
    /\ cyc' = c
    /\ UNCHANGED << j, results, result, command_id, deadline, now, issued,
                    running >>

\* main: send_command raised something else, caught by "except Exception"
SendRaises(c) ==
    /\ Record(SendFailedResult(ErrOther),
              [c EXCEPT !.err = ErrOther, !.exit = "send"])
    /\ UNCHANGED << issued, running >>

\* main: top of "for script_name, script_body in scripts", and the call of
\* send_command_and_wait up to the start of its poll loop
Send ==
    /\ pc = "send"
    /\ IF j > Len(scripts)
       THEN /\ idx' = idx + 1
            /\ pc' = "loop"
            /\ cyc' = NoCycle
            /\ UNCHANGED << j, deadline, command_id, result, results, issued,
                            running, contacted, now, sends >>
       ELSE \E end \in CallEnds :
            LET wsid == workspaces[idx].workspace_id
                started == [NoCycle EXCEPT !.pair = Len(results) + 1,
                                           !.wsid = wsid,
                                           !.sent = end]
            IN
            /\ contacted' = contacted \cup {wsid}
            /\ sends' = sends + 1
            /\ UNCHANGED idx
            /\ CASE end = "ok" -> SendReturns(started)
                 [] end = "ClientError" -> SendRaisesClientError(started)
                 [] end = "Exception" -> SendRaises(started)
    /\ UNCHANGED << inputs, page, found, ssm_map, report, registry >>

\* ------------------------------------------------------------ poll loop
\* a faulty variant: the loop test admits the deadline itself
LoopTestInclusive(t, d) == t <= d

\* send_command_and_wait: the test of "while time.time() < deadline"
LoopTest(t, d) == t < d

\* send_command_and_wait: list_command_invocations raised ClientError
QueryRaisesClientError(c) ==
    /\ Record(ListFailedResult(result, ErrClient),
              [c EXCEPT !.err = ErrClient, !.failedAt = c.queries,
                        !.exit = "ClientError", !.endAt = c.lastAt])
    /\ UNCHANGED running

\* main: list_command_invocations raised something else, which leaves
\* send_command_and_wait and is caught by "except Exception"
QueryRaises(c) ==
    /\ Record(SendFailedResult(ErrOther),
              [c EXCEPT !.err = ErrOther, !.failedAt = c.queries,
                        !.exit = "Exception", !.endAt = c.lastAt])
    /\ UNCHANGED running

\* send_command_and_wait: list_command_invocations returned invs at time at
QueryReturns(c, invs, at) ==
    LET updated == PollUpdate(result, invs)
        ended == invs # <<>> /\ StatusOf(invs[1]) \in
                                  {"Success", "Failed", "Cancelled", "TimedOut"}
        seen == IF invs = <<>> THEN [c EXCEPT !.empties = @ + 1]
                ELSE [c EXCEPT !.lastStatus = StatusOf(invs[1]),
                               !.last = invs]
        noted == IF ended
                 THEN [seen EXCEPT !.termAt = c.queries, !.termTime = at]
                 ELSE seen
    IN
    /\ running' = IF ended THEN running \ {issued} ELSE running
    /\ IF BreaksLoop(updated, invs)
       THEN Record(FinalResult(updated),
                   [noted EXCEPT !.exit = "terminal", !.endAt = at])
       ELSE /\ result' = updated
            /\ now' = at
            /\ cyc' = noted
            /\ UNCHANGED << pc, j, results, command_id, deadline >>

\* send_command_and_wait: the loop test fails; the code after the loop
LoopExit ==
    /\ Record(FinalResult(result),
              [cyc EXCEPT !.exit = "deadline", !.endAt = now])
    /\ UNCHANGED << running, contacted >>

\* send_command_and_wait: one turn of "while time.time() < deadline":
\* sleep, query, update result, break or go round; when the test fails,
\* the code after the loop. A return or a raise goes back to main, which
\* appends the row. The clock advances while the program sleeps.
Poll ==
    /\ pc = "poll"
    /\ IF LoopTest(now, deadline)
       THEN \E end \in CallEnds, invs \in Invocations :
            LET at == now + POLL_INTERVAL
                asked == [cyc EXCEPT !.queries = @ + 1, !.lastAt = at]
            IN
            /\ end # "ok" => invs = <<>>
            /\ contacted' = contacted \cup {workspaces[idx].workspace_id}
            /\ CASE end = "ClientError" -> QueryRaisesClientError(asked)
                 [] end = "Exception" -> QueryRaises(asked)
                 [] end = "ok" -> QueryReturns(asked, invs, at)
       ELSE LoopExit
    /\ UNCHANGED << inputs, page, found, ssm_map, idx, report, issued, sends,
                    registry >>

\* ----------------------------------------------------------------- report
\* main: write_results_csv(out_csv, results); exit 5 when it raises
Write ==
    /\ pc = "write"
    /\ report' = results
    /\ \E ok \in BOOLEAN : pc' = IF ok THEN "done" ELSE "exit5"
    /\ UNCHANGED << inputs, page, found, ssm_map, idx, j, now, deadline,
                    command_id, result, results, issued, running, contacted,
                    cyc, sends, registry >>

\* ------------------------------------------------------------ environment
\* the service: while the rows are processed, the instance "ws-1" registers
\* with the service or deregisters from it; the program is not told
RegistryChanges ==
    /\ pc \in {"loop", "send", "poll"}
    /\ registry' = IF "ws-1" \in registry THEN registry \ {"ws-1"}
                   ELSE registry \cup {"ws-1"}
    /\ UNCHANGED << inputs, pc, page, found, ssm_map, idx, j, now, deadline,
                    command_id, result, results, report, issued, running,
                    contacted, cyc, sends >>

\* one step of the program
Step == ResolvePage \/ NextRow \/ Send \/ Poll \/ Write

Next == Step \/ RegistryChanges

Spec == Init /\ [][Next]_vars

\* ================================================================= claims
Completed == pc \in {"write", "done", "exit5"}

\* the last cycle has ended and its row is results[cyc.pair]
CycleEnded == cyc.exit # "none"
CycleRow == results[cyc.pair]

\* ids of the registry snapshot the resolver read
Snapshot == UNION { pages[k] : k \in 1..Len(pages) }

\* o is the end of s
RECURSIVE IsSuffix(_, _)
IsSuffix(o, s) ==
    IF o = <<>> THEN TRUE
    ELSE IF s = <<>> THEN FALSE
    ELSE LET a == o[Len(o)]
             b == s[Len(s)]
         IN  /\ a[1] = b[1]
             /\ IF Len(o) = 1 THEN a[2] <= b[2]
                ELSE /\ a[2] = b[2]
                     /\ IsSuffix(SubSeq(o, 1, Len(o) - 1),
                                 SubSeq(s, 1, Len(s) - 1))

\* o is s when s has at most TAIL_CHARS characters, and else its last
\* TAIL_CHARS characters
IsTailOf(o, s) ==
    /\ TextLen(o) <= TAIL_CHARS
    /\ TextLen(s) <= TAIL_CHARS => o = s
    /\ TextLen(s) > TAIL_CHARS => TextLen(o) = TAIL_CHARS /\ IsSuffix(o, s)

C1_WitnessJobs ==
    /\ pc = "done"
    /\ Len(scripts) = 2
    /\ Len(results) = 2
    /\ results[1].status = "TimedOut"

\* C2: a workspace id that is not in the registry snapshot has only
\* SSMNotFound rows with empty response code, stdout, stderr and command
\* id, and no send_command or list_command_invocations names it.
C2_AbsentEndpointSkipped ==
    /\ \A k \in 1..Len(results) :
          results[k].workspace_id \notin Snapshot =>
             /\ results[k].status = "SSMNotFound"
             /\ results[k].response_code = EmptyText
             /\ results[k].stdout_snippet = EmptyText
             /\ results[k].stderr_snippet = EmptyText
             /\ results[k].command_id = EmptyText
    /\ contacted \subseteq Snapshot

\* C2 witness: a completed run with two scripts skipped for an absent
\* workspace.
C2_Witness ==
    /\ pc = "done"
    /\ Len(results) = 2
    /\ Len(scripts) = 2
    /\ results[1].workspace_id \notin Snapshot
    /\ results[2].status = "SSMNotFound"
    /\ contacted = {}

\* C2 witness: an absent workspace skipped after another one was served.
C2_WitnessMixed ==
    /\ pc = "done"
    /\ Len(results) = 2
    /\ results[1].workspace_id \in Snapshot
    /\ results[2].workspace_id \notin Snapshot
    /\ contacted # {}

\* a status query of the last cycle saw a terminal status before the
\* deadline of the command
SawTerminalInTime == cyc.termAt > 0 /\ cyc.termTime < cyc.deadline

\* C3 as stated: a dispatched command for which no status query saw a
\* terminal status before the deadline, and no status query failed, is
\* recorded as TimedOut.
C3_TimedOutUnlessTerminalInTime ==
    (CycleEnded /\ cyc.sent = "ok" /\ cyc.failedAt = 0 /\ ~ SawTerminalInTime)
       => CycleRow.status = "TimedOut"

\* C3 amended: a dispatched command for which no status query at all saw a
\* terminal status (the query that follows the last sleep, after the
\* deadline, included), and no status query failed, is recorded as TimedOut.
C3_TimedOutUnlessTerminalSeen ==
    (CycleEnded /\ cyc.sent = "ok" /\ cyc.failedAt = 0 /\ cyc.termAt = 0)
       => /\ CycleRow.status = "TimedOut"
          /\ cyc.raw.status = "TimedOut"

\* C3 witness: the loop ended at the deadline after two queries, the last
\* of which reported InProgress.
C3_Witness ==
    /\ CycleEnded
    /\ cyc.exit = "deadline"
    /\ cyc.queries = 2
    /\ cyc.lastStatus = "InProgress"
    /\ CycleRow.status = "TimedOut"

\* C4 as stated: a failed dispatch is recorded as SendCommandFailed with
\* the error text in stderr and an empty command id, and no status query
\* is issued for the pair.
C4_DispatchFailureIsSendCommandFailed ==
    (CycleEnded /\ cyc.sent # "ok") =>
       /\ CycleRow.status = "SendCommandFailed"
       /\ IsTailOf(CycleRow.stderr_snippet, cyc.err)
       /\ CycleRow.command_id = EmptyText
       /\ cyc.queries = 0

\* C4 amended: a dispatch that fails with ClientError is recorded as
\* SendCommandFailed and one that fails with any other exception as
\* SendFailed; in both cases stderr holds the error text cut to its last
\* TAIL_CHARS characters, response code, stdout and command id are empty,
\* no status query is issued for the pair, and the run goes on.
C4_DispatchFailureRecorded ==
    (CycleEnded /\ cyc.sent # "ok") =>
       /\ cyc.exit = "send"
       /\ CycleRow.status =
             (IF cyc.sent = "ClientError" THEN "SendCommandFailed" ELSE "SendFailed")
       /\ IsTailOf(CycleRow.stderr_snippet, cyc.err)
       /\ cyc.err = ErrText(cyc.sent)
       /\ CycleRow.response_code = EmptyText
       /\ CycleRow.stdout_snippet = EmptyText
       /\ CycleRow.command_id = EmptyText
       /\ cyc.queries = 0
       /\ pc \in {"send", "loop", "write", "done", "exit5"}

\* C4 witness: the first script's dispatch raised ClientError and the run
\* went on to record the second script.
C4_Witness ==
    /\ CycleEnded
    /\ cyc.sent = "ClientError"
    /\ cyc.pair = 1
    /\ Len(results) = 1
    /\ Len(scripts) = 2
    /\ pc = "send"
    /\ j = 2

\* C5 as stated: a failed status query ends the poll at once with status
\* ListInvocationsFailed and the error text in stderr, with no further
\* query for the command.
C5_QueryFailureIsListInvocationsFailed ==
    (CycleEnded /\ cyc.failedAt > 0) =>
       /\ CycleRow.status = "ListInvocationsFailed"
       /\ IsTailOf(CycleRow.stderr_snippet, cyc.err)
       /\ cyc.queries = cyc.failedAt

\* C6: a registry query that fails on any page ends the run with no
\* mapping, no request to the service and no row; a run that got past the
\* resolver read every page, and nothing else makes it exit that way.
C6_ResolutionFailureAborts ==
    /\ pc = "exit4" =>
          /\ page <= Len(pages)
          /\ ssm_map = <<>>
          /\ results = <<>>
          /\ report = <<>>
          /\ contacted = {}
          /\ issued = 0
          /\ cyc = NoCycle
    /\ pc \notin {"resolve", "exit4"} =>
          /\ page = Len(pages) + 1
          /\ ssm_map = found

\* C6 witness: the query failed on the third page, after two pages were
\* read and a workspace was found.
C6_Witness ==
    /\ pc = "exit4"
    /\ page = 3
    /\ \E ws \in DOMAIN found : found[ws]

\* C7: the stdout and stderr stored in a row are the text the cycle
\* returned when it has at most TAIL_CHARS characters, and else its last
\* TAIL_CHARS characters; no stored text is longer.
C7_StoredTextIsTail ==
    /\ CycleEnded =>
          /\ IsTailOf(CycleRow.stdout_snippet, cyc.raw.stdout)
          /\ IsTailOf(CycleRow.stderr_snippet, cyc.raw.stderr)
    /\ \A k \in 1..Len(results) :
          /\ TextLen(results[k].stdout_snippet) <= TAIL_CHARS
          /\ TextLen(results[k].stderr_snippet) <= TAIL_CHARS

\* C7 witness: the poller returned a stdout of TAIL_CHARS + 1 characters,
\* stored without its first character.
C7_Witness ==
    /\ CycleEnded
    /\ cyc.exit = "terminal"
    /\ cyc.raw.stdout = TxtLong
    /\ CycleRow.stdout_snippet = Cat(Rep("a", 1), Rep("b", TAIL_CHARS - 1))
    /\ CycleRow.stdout_snippet # cyc.raw.stdout

\* main: workspace_ids
workspace_ids == [k \in 1..Len(workspaces) |-> workspaces[k].workspace_id]

\* C8: the mapping a successful resolve returns has exactly the input ids
\* as keys, maps an id to true iff some page of the registry lists it, and
\* is the mapping a second resolve of the same ids yields.
C8_ResolveMapsSnapshot ==
    pc \notin {"resolve", "exit4"} =>
       /\ DOMAIN ssm_map = { workspace_ids[k] : k \in 1..Len(workspace_ids) }
       /\ \A ws \in DOMAIN ssm_map :
             ssm_map[ws] <=> \E k \in 1..Len(pages) : ws \in pages[k]
       /\ ssm_map = resolve_ssm_managed_instances(workspace_ids, pages)

\* C8 witness: a two page registry whose first page lists only another
\* instance; one workspace is found on the second page, one on no page.
C8_Witness ==
    /\ pc = "loop"
    /\ Len(pages) = 2
    /\ pages[1] = {"i-0abc"}
    /\ DOMAIN ssm_map = {"ws-1", "ws-2"}
    /\ ssm_map["ws-1"]
    /\ ~ ssm_map["ws-2"]

\* C9: the status the poller returns for a submitted command is Success,
\* Failed, Cancelled, TimedOut or ListInvocationsFailed, and the row of a
\* submitted command is never SendCommandFailed.
C9_PollerReturnsTerminal ==
    (CycleEnded /\ cyc.sent = "ok") =>
       /\ cyc.exit \in {"terminal", "deadline", "ClientError"} =>
             cyc.raw.status \in {"Success", "Failed", "Cancelled", "TimedOut",
                                 "ListInvocationsFailed"}
       /\ CycleRow.status # "SendCommandFailed"
       /\ CycleRow.status # "Pending"

\* C9 witness: the last record seen had no Status and the poller returned
\* TimedOut.
C9_Witness ==
    /\ CycleEnded
    /\ cyc.sent = "ok"
    /\ cyc.lastStatus = "Unknown"
    /\ cyc.raw.status = "TimedOut"

\* C10 as stated: at most one submitted command is short of a terminal
\* state on the service.
C10_OneCommandRunning == Cardinality(running) <= 1

\* C10 amended: a command is submitted only after the cycle of the
\* previous pair has ended and its row was appended, so at most one
\* submitted command, the one being polled, has no row yet. (A command
\* whose poll ended at the deadline or with a failed query may still run on
\* the service when the next one is submitted.)
C10_OneCycleAtATime ==
    /\ pc # "poll" => CycleEnded \/ cyc.sent = "none"
    /\ pc = "poll" => ~ CycleEnded /\ cyc.pair = Len(results) + 1
                      /\ command_id = CommandId(issued)
    /\ issued <= Len(results) + (IF pc = "poll" THEN 1 ELSE 0)

\* C10 witness: the second command is being polled while the first, whose
\* poll ended at the deadline, is still running on the service.
C10_Witness ==
    /\ pc = "poll"
    /\ issued = 2
    /\ Len(results) = 1
    /\ results[1].status = "TimedOut"
    /\ running = {1, 2}

\* C11 (as stated): the poll never runs past submission time + timeout, and
\* no status query is issued after that deadline
C11_NoQueryAfterDeadline ==
    cyc.sent = "ok" =>
        /\ cyc.lastAt <= cyc.deadline
        /\ pc = "poll" => now <= deadline
        /\ CycleEnded => cyc.endAt <= cyc.deadline

\* C11: the deadline is tested before each sleep only: the sleep that
\* precedes every status query started before submission time + timeout, so
\* the poll runs past the deadline by less than one POLL_INTERVAL (the model
\* gives the query itself no duration); with a timeout of 0 no status query
\* is issued
C11_SleepStartsBeforeDeadline ==
    cyc.sent = "ok" =>
        /\ cyc.deadline = timeout
        /\ cyc.queries > 0 => /\ cyc.lastAt = cyc.queries * POLL_INTERVAL
                              /\ cyc.lastAt - POLL_INTERVAL < cyc.deadline
        /\ cyc.deadline <= 0 => cyc.queries = 0
        /\ pc = "poll" => now < deadline + POLL_INTERVAL
        /\ CycleEnded => cyc.endAt < cyc.deadline + POLL_INTERVAL

\* a status query was issued after the deadline: timeout 7, query at 10
C11_Witness ==
    /\ cyc.sent = "ok"
    /\ cyc.queries = 2
    /\ cyc.lastAt > cyc.deadline
    /\ cyc.deadline > 0

\* the run under the claim's assumption: the clock advances and every
\* service request returns, so a step of the program that can be taken is
\* taken in the end, whatever the registry does meanwhile
FairSpec == Spec /\ WF_vars(Step)

\* C12: once resolution has succeeded, from the row loop, the script loop
\* and every poll loop the run reaches the end of main with every row handed
\* to write_results_csv, one per pair: no poll loop goes on for ever
C12_RunCompletes ==
    (pc \in {"loop", "send", "poll"}) ~>
        (/\ pc \in {"done", "exit5"}
         /\ report = results
         /\ Len(report) = Len(workspaces) * Len(scripts))

\* a completed run with a dispatch failure and a command that never
\* reported a terminal status (its row has no captured output, which a
\* TimedOut record of the service would have left)
C12_Witness ==
    /\ pc = "done"
    /\ report = results
    /\ Len(results) = 2
    /\ results[1].status = "SendFailed"
    /\ results[2].status = "TimedOut"
    /\ results[2].command_id # EmptyText
    /\ results[2].stdout_snippet = EmptyText

\* input rows whose workspace id the resolver found
ReachableRows ==
    { i \in 1..Len(workspaces) : workspaces[i].workspace_id \in Snapshot }

\* rows of results that stand for a dispatched pair
DispatchedRows == { k \in 1..Len(results) : results[k].status # "SSMNotFound" }

\* C13: every send_command request belongs to one pair of a reachable row
\* and every such pair gets one request only, whatever the request or the
\* poll returned; a completed run has made (reachable rows) x |J| requests
C13_OneDispatchPerReachablePair ==
    /\ sends = Cardinality(DispatchedRows) + (IF pc = "poll" THEN 1 ELSE 0)
    /\ \A k \in DispatchedRows :
          results[k].workspace_id \in Snapshot
    /\ Completed => sends = Cardinality(ReachableRows) * Len(scripts)

\* a completed run whose two requests ended in a dispatch failure and in a
\* failed status query
C13_Witness ==
    /\ pc = "done"
    /\ sends = 2
    /\ results[1].status = "SendCommandFailed"
    /\ results[2].status = "ListInvocationsFailed"

\* the string form of a reported response code; empty for a missing one
ReportedCode(p) ==
    IF p.ResponseCode = Missing THEN EmptyText ELSE IntStr(p.ResponseCode[1])

\* the row carries what plugin result p reports (texts cut to their tail)
RowCarriesPlugin(row, p) ==
    /\ row.response_code = ReportedCode(p)
    /\ IsTailOf(row.stdout_snippet, OrEmpty(p.Output))
    /\ IsTailOf(row.stderr_snippet, OrEmpty(p.StandardErrorContent))

\* C14 (as stated): once a status query has returned a record with a
\* terminal status no further query is made for the command, and the row
\* carries that status and the response code, stdout and stderr of that
\* record's first plugin result
C14_TerminalRecordIsRecorded ==
    cyc.termAt > 0 =>
        /\ cyc.queries = cyc.termAt
        /\ cyc.exit = "terminal"
        /\ pc # "poll"
        /\ CycleRow.status = StatusOf(cyc.last[1])
        /\ cyc.last[1].CommandPlugins # <<>> =>
              RowCarriesPlugin(CycleRow, cyc.last[1].CommandPlugins[1])

C16_RowCarriesReportedFields ==
    ( /\ cyc.exit \in {"terminal", "deadline"}
      /\ cyc.last # <<>>
      /\ cyc.last[1].CommandPlugins # <<>> ) =>
        RowCarriesPlugin(CycleRow, cyc.last[1].CommandPlugins[1])

\* C17 (as stated): the poll loop of a dispatched command is left only
\* after a status query read a terminal status or when the deadline passed
C17_LoopEndsByTerminalOrDeadline ==
    (cyc.sent = "ok" /\ CycleEnded) =>
        \/ cyc.termAt > 0 /\ cyc.termAt = cyc.queries
        \/ cyc.endAt >= cyc.deadline

\* C17: the poll loop of a dispatched command is left in one of three ways:
\* its last status query read a terminal status, the loop test found the
\* deadline passed, or its last status query raised (ClientError: the
\* poller returns ListInvocationsFailed; anything else: main records
\* SendFailed); until then the loop goes on
C17_LoopExits ==
    /\ pc = "poll" =>
          cyc.exit = "none" /\ cyc.termAt = 0 /\ cyc.failedAt = 0
    /\ (cyc.sent = "ok" /\ CycleEnded) =>
          \/ /\ cyc.exit = "terminal"
             /\ cyc.termAt > 0 /\ cyc.termAt = cyc.queries
             /\ cyc.lastStatus \in TerminalStatuses
             /\ cyc.failedAt = 0
             /\ CycleRow.status = cyc.lastStatus
          \/ /\ cyc.exit = "deadline"
             /\ cyc.endAt >= cyc.deadline
             /\ cyc.termAt = 0 /\ cyc.failedAt = 0
             /\ CycleRow.status = "TimedOut"
          \/ /\ cyc.exit = "ClientError"
             /\ cyc.failedAt > 0 /\ cyc.failedAt = cyc.queries
             /\ cyc.termAt = 0
             /\ CycleRow.status = "ListInvocationsFailed"
          \/ /\ cyc.exit = "Exception"
             /\ cyc.failedAt > 0 /\ cyc.failedAt = cyc.queries
             /\ cyc.termAt = 0
             /\ CycleRow.status = "SendFailed"

\* the loop was left before the deadline without a terminal status: the
\* first status query raised ClientError
C17_Witness ==
    /\ cyc.sent = "ok"
    /\ cyc.exit = "ClientError"
    /\ cyc.queries = 1
    /\ cyc.endAt < cyc.deadline
    /\ CycleRow.status = "ListInvocationsFailed"

\* C18: every step leaves results as it is or appends rows to its end: the
\* rows already there keep their place and their content
C18_ResultsAppendOnly ==
    [][ /\ Len(results') >= Len(results)
        /\ SubSeq(results', 1, Len(results)) = results ]_vars

\* a second pair was processed after a first row was recorded, and the
\* report holds both rows
C18_Witness ==
    /\ pc = "done"
    /\ Len(results) = 2
    /\ results[1].status = "Success"
    /\ results[2].status = "SSMNotFound"
    /\ report = results

\* C19: the registry is read once, page by page, before any send_command
\* request, and the rows are decided on what was read then: a row whose
\* workspace id was read gets a request for every script and a row whose id
\* was not read gets none, whatever the registry holds by then
C19_SkipUsesSnapshot ==
    /\ (sends > 0 \/ results # <<>>) =>
          /\ pc \notin {"resolve", "exit4"}
          /\ page = Len(pages) + 1
          /\ ssm_map = found
    /\ \A k \in 1..Len(results) :
          results[k].status = "SSMNotFound" <=>
             results[k].workspace_id \notin Snapshot
    /\ contacted \subseteq Snapshot
    /\ Completed =>
          \A i \in 1..Len(workspaces), s \in 1..Len(scripts) :
             LET row == results[(i - 1) * Len(scripts) + s]
             IN  /\ row.workspace_id = workspaces[i].workspace_id
                 /\ row.status # "SSMNotFound" <=> i \in ReachableRows

\* "ws-1" was read from the registry and has left it since: its row was
\* dispatched all the same
C19_Witness ==
    /\ Completed
    /\ "ws-1" \in Snapshot
    /\ "ws-1" \notin registry
    /\ \E k \in 1..Len(results) :
          /\ results[k].workspace_id = "ws-1"
          /\ results[k].status # "SSMNotFound"
          /\ k > 1

\* "ws-1" was not read from the registry and has joined it since: its row
\* was skipped all the same
C19_WitnessJoined ==
    /\ Completed
    /\ "ws-1" \notin Snapshot
    /\ "ws-1" \in registry
    /\ \E k \in 1..Len(results) :
          /\ results[k].workspace_id = "ws-1"
          /\ results[k].status = "SSMNotFound"

\* C20 (as stated): when the send_command request of a pair succeeded, the
\* pair's row carries the command id it returned and a status other than
\* SendCommandFailed, SendFailed and SSMNotFound, whatever the status
\* queries did; the command id of a row is empty only when the pair was
\* skipped or its request failed
C20_RowAgreesWithDispatch ==
    /\ (cyc.sent = "ok" /\ CycleEnded) =>
          /\ cyc.handle # EmptyText
          /\ CycleRow.command_id = cyc.handle
          /\ CycleRow.status \notin
                {"SendCommandFailed", "SendFailed", "SSMNotFound"}
    /\ (CycleEnded /\ CycleRow.command_id = EmptyText) => cyc.sent # "ok"
    /\ \A k \in 1..Len(results) :
          results[k].status = "SSMNotFound" => results[k].command_id = EmptyText

====
